---------------------------- MODULE Spec2Model ----------------------------
(***************************************************************************)
(* The two PlatformIO extra scripts of SerialCommandManager:               *)
(*   ensure_toolchain.py   - rebinds CC/CXX/AR/RANLIB on Windows           *)
(*   generate_coverage.py  - post-action on target "test" that runs        *)
(*                           lcov --capture, lcov --remove and genhtml     *)
(* A behaviour is a sequence of builds.  In each build the two scripts     *)
(* run at configuration time, the target "test" is built and the           *)
(* registered post-action is called.  The file system outlives a build,    *)
(* everything else is rebuilt from scratch.                                *)
(*                                                                         *)
(* A path is the sequence of its components (os.path.join appends          *)
(* components); an argv element is such a sequence too, a plain word       *)
(* being a one-component sequence.                                         *)
(***************************************************************************)
EXTENDS Integers, Sequences, FiniteSets, TLC

\* number of builds (runs of the build system) in one behaviour
MaxBuilds == 2

VARIABLES
    platform,      \* platform.system() of the host
    defaultEnv,    \* the construction environment as the build system makes it
    env,           \* the construction environment ("env" of both scripts)
    scriptsDone,   \* the extra scripts whose module body has run
    postActions,   \* target name -> callbacks registered with AddPostAction
    target,        \* "pending" | "built" : the target "test"
    pc,            \* position inside generate_coverage_report
    fs,            \* the coverage directory and the three artifacts in it
    stdout,        \* what the build has printed
    calls,         \* the subprocess.run calls made, in order, with outcome
    pendingExc,    \* exception raised inside the try block, not yet handled
    exc,           \* exception that left generate_coverage_report
    builds,        \* number of builds started
    fsAtEntry,     \* fs when generate_coverage_report was entered
    fsAtFail,      \* fs when a subprocess.run call raised
    makedirsCalls, \* number of os.makedirs calls of this build
    mkdirFailed    \* os.makedirs raised in this build

vars == <<platform, defaultEnv, env, scriptsDone, postActions, target, pc, fs,
          stdout, calls, pendingExc, exc, builds, fsAtEntry, fsAtFail,
          makedirsCalls, mkdirFailed>>

tcVars == <<platform, defaultEnv, env>>
histVars == <<fsAtEntry, fsAtFail, makedirsCalls, mkdirFailed>>

-----------------------------------------------------------------------------
(* The construction environment *)

Platforms == {"Windows", "Linux", "Darwin"}

ToolKeys == {"CC", "CXX", "AR", "RANLIB"}
EnvKeys == ToolKeys \cup {"LINK", "PROJECT_DIR"}

\* the bindings a fresh environment may hold
EnvChoices ==
    [CC : {"gcc", "cl"}, CXX : {"g++", "cl"}, AR : {"ar", "lib"},
     RANLIB : {"ranlib", "true"}, LINK : {"$SMARTLINK"},
     PROJECT_DIR : {"/work/proj"}]

\* env.Replace(**kw): the keys of kw are rebound, the others are kept
Replace(e, kw) ==
    [k \in DOMAIN e \cup DOMAIN kw |-> IF k \in DOMAIN kw THEN kw[k] ELSE e[k]]

MinGWWrongRanlib ==
    [CC |-> "gcc", CXX |-> "g++", AR |-> "ar", RANLIB |-> "ar"]

\* the keyword arguments of the env.Replace call
MinGW ==
    [CC |-> "gcc", CXX |-> "g++", AR |-> "ar", RANLIB |-> "ranlib"]

IsWindowsNotLinux(p) == p # "Linux"

\* platform.system() == "Windows"
IsWindows(p) == p = "Windows"

\* env.subst("$PROJECT_DIR")
Subst(e) == <<e["PROJECT_DIR"]>>

\* os.path.join(p, *rest)
Join(p, rest) == p \o rest

build_dir == Join(Subst(env), <<".pio", "build", "native">>)
src_dir == Join(Subst(env), <<"src">>)
coverage_dir == Join(Subst(env), <<"coverage">>)

-----------------------------------------------------------------------------
(* The coverage directory *)

FileStates == {"absent", "partial", "complete"}

\* dir: os.path.exists(coverage_dir); info, filtered, html: the artifacts
FsStates ==
    {f \in [dir : BOOLEAN, info : FileStates, filtered : FileStates,
            html : FileStates] :
        ~f.dir => (f.info = "absent" /\ f.filtered = "absent" /\ f.html = "absent")}

\* what a build may find on disk before the first run
InitialFs == {f \in FsStates : \A k \in {"info", "filtered", "html"} : f[k] # "partial"}

-----------------------------------------------------------------------------
(* The three external commands *)

Steps == <<"capture", "filter", "genhtml">>

W(s) == <<s>>

CaptureArgv ==
    <<W("lcov"), W("--capture"), W("--directory"), build_dir,
      W("--output-file"), Join(coverage_dir, <<"coverage.info">>),
      W("--rc"), W("lcov_branch_coverage=1")>>

FilterArgv ==
    <<W("lcov"), W("--remove"), Join(coverage_dir, <<"coverage.info">>),
      W("/usr/*"), W("*/test/*"), W("*/.pio/*"), W("*/ArduinoFake/*"),
      W("--output-file"), Join(coverage_dir, <<"coverage_filtered.info">>),
      W("--rc"), W("lcov_branch_coverage=1")>>

GenhtmlArgv ==
    <<W("genhtml"), Join(coverage_dir, <<"coverage_filtered.info">>),
      W("--output-directory"), Join(coverage_dir, <<"html">>),
      W("--branch-coverage"), W("--title"),
      W("SerialCommandManager Code Coverage")>>

Argv(step) ==
    CASE step = "capture" -> CaptureArgv
      [] step = "filter" -> FilterArgv
      [] step = "genhtml" -> GenhtmlArgv

\* the artifact a command writes
Output(step) ==
    CASE step = "capture" -> "info"
      [] step = "filter" -> "filtered"
      [] step = "genhtml" -> "html"

ExitCodes == {0, 1, 2}

\* an exception object; cmd and returncode are those of CalledProcessError
NoExc == [type |-> "none", cmd |-> <<>>, returncode |-> 0]
Raised(t, cmd, rc) == [type |-> t, cmd |-> cmd, returncode |-> rc]

\* a printed line: its kind, the path it names, the exception it formats
Msg(kind, path, e) == [kind |-> kind, path |-> path, detail |-> e]

GeneratingMsg == Msg("generating", <<>>, NoExc)
SuccessMsg == Msg("success", Join(coverage_dir, <<"html", "index.html">>), NoExc)
HintMsg == Msg("hint", <<>>, NoExc)
FailedMsg(e) == Msg("failed", <<>>, e)

NeedsMakedirsNever(f) == FALSE

NeedsMakedirsAlways(f) == TRUE

\* if not os.path.exists(coverage_dir)
NeedsMakedirs(f) == ~f.dir

\* os.makedirs(coverage_dir): refuses an existing path, may fail on I/O
MakedirsOutcomes(f) == IF f.dir THEN {"FileExistsError"} ELSE {"ok", "OSError"}

CheckTrueButGenhtml(step) == step # "genhtml"

\* check=True of the subprocess.run call of a step
CheckTrue(step) == TRUE

SequelSkipsFilter(step) ==
    CASE step = "capture" -> "genhtml"
      [] step = "filter" -> "genhtml"
      [] step = "genhtml" -> "success"

\* the statement that follows a subprocess.run call that returned
Sequel(step) ==
    CASE step = "capture" -> "filter"
      [] step = "filter" -> "genhtml"
      [] step = "genhtml" -> "success"

\* inside subprocess.run, which returns only when the process has exited
WaitPc(step) ==
    CASE step = "capture" -> "capture_wait"
      [] step = "filter" -> "filter_wait"
      [] step = "genhtml" -> "genhtml_wait"

-----------------------------------------------------------------------------
(* Initial state: a fresh build on some host *)

Init ==
    /\ platform \in Platforms
    /\ defaultEnv \in EnvChoices
    /\ env = defaultEnv
    /\ scriptsDone = {}
    /\ postActions = [t \in {"test"} |-> <<>>]
    /\ target = "pending"
    /\ pc = "idle"
    /\ fs \in InitialFs
    /\ stdout = <<>>
    /\ calls = <<>>
    /\ pendingExc = NoExc
    /\ exc = NoExc
    /\ builds = 1
    /\ fsAtEntry = fs
    /\ fsAtFail = fs
    /\ makedirsCalls = 0
    /\ mkdirFailed = FALSE

-----------------------------------------------------------------------------
(* ensure_toolchain.py *)

EnsureToolchain ==
    /\ "ensure_toolchain" \notin scriptsDone
    /\ target = "pending"
    /\ env' = IF IsWindows(platform) THEN Replace(env, MinGW) ELSE env
    /\ scriptsDone' = scriptsDone \cup {"ensure_toolchain"}
    /\ UNCHANGED <<platform, defaultEnv, postActions, target, pc, fs, stdout,
                   calls, pendingExc, exc, builds, histVars>>

-----------------------------------------------------------------------------
(* generate_coverage.py *)

\* env.AddPostAction("test", generate_coverage_report)
RegisterHook ==
    /\ "generate_coverage" \notin scriptsDone
    /\ target = "pending"
    /\ postActions' = [postActions EXCEPT
                          !["test"] = Append(@, "generate_coverage_report")]
    /\ scriptsDone' = scriptsDone \cup {"generate_coverage"}
    /\ UNCHANGED <<tcVars, target, pc, fs, stdout, calls, pendingExc, exc,
                   builds, histVars>>

\* the build system builds the target "test" once both scripts have run
BuildTest ==
    /\ scriptsDone = {"ensure_toolchain", "generate_coverage"}
    /\ target = "pending"
    /\ target' = "built"
    /\ UNCHANGED <<tcVars, scriptsDone, postActions, pc, fs, stdout, calls,
                   pendingExc, exc, builds, histVars>>

\* the post-action is called: the first print and the three paths
EnterReport ==
    /\ target = "built"
    /\ pc = "idle"
    /\ postActions["test"] # <<>>
    /\ Head(postActions["test"]) = "generate_coverage_report"
    /\ stdout' = Append(stdout, GeneratingMsg)
    /\ pc' = "checkdir"
    /\ fsAtEntry' = fs
    /\ UNCHANGED <<tcVars, scriptsDone, postActions, target, fs, calls,
                   pendingExc, exc, builds, fsAtFail, makedirsCalls, mkdirFailed>>

CheckDirCatchesOSError ==
    /\ pc = "checkdir"
    /\ IF NeedsMakedirs(fs)
       THEN \E o \in MakedirsOutcomes(fs) :
              /\ makedirsCalls' = makedirsCalls + 1
              /\ fs' = IF o = "ok" THEN [fs EXCEPT !.dir = TRUE] ELSE fs
              /\ pc' = IF o = "ok" THEN "capture" ELSE "returned"
              /\ stdout' = IF o = "ok" THEN stdout
                           ELSE Append(stdout, FailedMsg(Raised(o, <<>>, 0)))
              /\ mkdirFailed' = (o # "ok")
       ELSE /\ pc' = "capture"
            /\ UNCHANGED <<fs, stdout, makedirsCalls, mkdirFailed>>
    /\ UNCHANGED <<tcVars, scriptsDone, postActions, target, exc, calls,
                   pendingExc, builds, fsAtEntry, fsAtFail>>

\* if not os.path.exists(coverage_dir): os.makedirs(coverage_dir)
CheckDir ==
    /\ pc = "checkdir"
    /\ IF NeedsMakedirs(fs)
       THEN \E o \in MakedirsOutcomes(fs) :
              /\ makedirsCalls' = makedirsCalls + 1
              /\ fs' = IF o = "ok" THEN [fs EXCEPT !.dir = TRUE] ELSE fs
              /\ pc' = IF o = "ok" THEN "capture" ELSE "raised"
              /\ exc' = IF o = "ok" THEN exc ELSE Raised(o, <<>>, 0)
              /\ mkdirFailed' = (o # "ok")
       ELSE /\ pc' = "capture"
            /\ UNCHANGED <<fs, exc, makedirsCalls, mkdirFailed>>
    /\ UNCHANGED <<tcVars, scriptsDone, postActions, target, stdout, calls,
                   pendingExc, builds, fsAtEntry, fsAtFail>>

\* subprocess.run([...], check=True) is called: the executable is looked up
StartTool(step) ==
    /\ pc = step
    /\ \E found \in BOOLEAN :
         /\ calls' = Append(calls,
                [step |-> step, argv |-> Argv(step), rc |-> 0,
                 outcome |-> IF found THEN "running" ELSE "notfound"])
         /\ pc' = IF found THEN WaitPc(step) ELSE "except"
         /\ pendingExc' = IF found THEN pendingExc
                          ELSE Raised("FileNotFoundError", Argv(step), 0)
         /\ fsAtFail' = IF found THEN fsAtFail ELSE fs
    /\ UNCHANGED <<tcVars, scriptsDone, postActions, target, fs, stdout, exc,
                   builds, fsAtEntry, makedirsCalls, mkdirFailed>>

\* the process exits; a failing tool may leave its output half written
CompleteTool(step) ==
    /\ pc = WaitPc(step)
    /\ \E rc \in ExitCodes :
       \E w \in (IF rc = 0 THEN {"complete"} ELSE {fs[Output(step)], "partial"}) :
         /\ calls' = [calls EXCEPT ![Len(calls)] =
                         [@ EXCEPT !.outcome = "exited", !.rc = rc]]
         /\ fs' = [fs EXCEPT ![Output(step)] = w]
         /\ IF rc # 0 /\ CheckTrue(step)
            THEN /\ pendingExc' = Raised("CalledProcessError", Argv(step), rc)
                 /\ pc' = "except"
                 /\ fsAtFail' = fs'
            ELSE /\ pc' = Sequel(step)
                 /\ UNCHANGED <<pendingExc, fsAtFail>>
    /\ UNCHANGED <<tcVars, scriptsDone, postActions, target, stdout, exc,
                   builds, fsAtEntry, makedirsCalls, mkdirFailed>>

StartCapture == StartTool("capture")
CompleteCapture == CompleteTool("capture")
StartFilter == StartTool("filter")
CompleteFilter == CompleteTool("filter")
StartGenhtml == StartTool("genhtml")
CompleteGenhtml == CompleteTool("genhtml")

\* print(f"Coverage report generated at: {...}")
PrintSuccess ==
    /\ pc = "success"
    /\ stdout' = Append(stdout, SuccessMsg)
    /\ pc' = "returned"
    /\ UNCHANGED <<tcVars, scriptsDone, postActions, target, fs, calls,
                   pendingExc, exc, builds, histVars>>

HandleFileNotFoundReraises ==
    /\ pc = "except"
    /\ pendingExc.type = "FileNotFoundError"
    /\ exc' = pendingExc
    /\ pendingExc' = NoExc
    /\ pc' = "raised"
    /\ UNCHANGED <<tcVars, scriptsDone, postActions, target, fs, stdout, calls,
                   builds, histVars>>

\* except FileNotFoundError: print("WARNING: lcov/genhtml not found. ...")
HandleFileNotFound ==
    /\ pc = "except"
    /\ pendingExc.type = "FileNotFoundError"
    /\ stdout' = Append(stdout, HintMsg)
    /\ pendingExc' = NoExc
    /\ pc' = "returned"
    /\ UNCHANGED <<tcVars, scriptsDone, postActions, target, fs, calls, exc,
                   builds, histVars>>

HandleCalledProcessErrorNoDetail ==
    /\ pc = "except"
    /\ pendingExc.type = "CalledProcessError"
    /\ stdout' = Append(stdout, FailedMsg(NoExc))
    /\ pendingExc' = NoExc
    /\ pc' = "returned"
    /\ UNCHANGED <<tcVars, scriptsDone, postActions, target, fs, calls, exc,
                   builds, histVars>>

HandleCalledProcessErrorCleansUp ==
    /\ pc = "except"
    /\ pendingExc.type = "CalledProcessError"
    /\ stdout' = Append(stdout, FailedMsg(pendingExc))
    /\ fs' = [fs EXCEPT !.info = "absent", !.filtered = "absent"]
    /\ pendingExc' = NoExc
    /\ pc' = "returned"
    /\ UNCHANGED <<tcVars, scriptsDone, postActions, target, calls, exc,
                   builds, histVars>>

\* except subprocess.CalledProcessError as e: print(f"WARNING: ... {e}")
HandleCalledProcessError ==
    /\ pc = "except"
    /\ pendingExc.type = "CalledProcessError"
    /\ stdout' = Append(stdout, FailedMsg(pendingExc))
    /\ pendingExc' = NoExc
    /\ pc' = "returned"
    /\ UNCHANGED <<tcVars, scriptsDone, postActions, target, fs, calls, exc,
                   builds, histVars>>

\* the build system is run again on the same host and project
NewBuild ==
    /\ pc \in {"returned", "raised"}
    /\ builds < MaxBuilds
    /\ builds' = builds + 1
    /\ env' = defaultEnv
    /\ scriptsDone' = {}
    /\ postActions' = [t \in {"test"} |-> <<>>]
    /\ target' = "pending"
    /\ pc' = "idle"
    /\ stdout' = <<>>
    /\ calls' = <<>>
    /\ pendingExc' = NoExc
    /\ exc' = NoExc
    /\ fsAtEntry' = fs
    /\ fsAtFail' = fs
    /\ makedirsCalls' = 0
    /\ mkdirFailed' = FALSE
    /\ UNCHANGED <<platform, defaultEnv, fs>>

Next ==
    \/ EnsureToolchain
    \/ RegisterHook
    \/ BuildTest
    \/ EnterReport
    \/ CheckDir
    \/ StartCapture
    \/ CompleteCapture
    \/ StartFilter
    \/ CompleteFilter
    \/ StartGenhtml
    \/ CompleteGenhtml
    \/ PrintSuccess
    \/ HandleFileNotFound
    \/ HandleCalledProcessError
    \/ NewBuild

Spec == Init /\ [][Next]_vars

TypeOK ==
    /\ platform \in Platforms
    /\ env \in EnvChoices
    /\ fs \in FsStates
    /\ pc \in {"idle", "checkdir", "capture", "capture_wait", "filter",
               "filter_wait", "genhtml", "genhtml_wait", "success", "except",
               "returned", "raised"}
    /\ builds \in 1..MaxBuilds

-----------------------------------------------------------------------------
(* Vocabulary of the properties *)

ToolchainRan == "ensure_toolchain" \in scriptsDone

\* this step is the run of ensure_toolchain.py
ToolchainStep == ~ToolchainRan /\ ToolchainRan'

Printed(kind) == \E i \in DOMAIN stdout : stdout[i].kind = kind

NotFound(i) == calls[i].outcome = "notfound"
ExitedNonZero(i) == calls[i].outcome = "exited" /\ calls[i].rc # 0
ExitedZero(i) == calls[i].outcome = "exited" /\ calls[i].rc = 0

AllThreeOk == Len(calls) = 3 /\ \A i \in 1..3 : ExitedZero(i)

EndsWith(p, suffix) ==
    /\ Len(p) >= Len(suffix)
    /\ SubSeq(p, Len(p) - Len(suffix) + 1, Len(p)) = suffix

-----------------------------------------------------------------------------
(* Properties *)

\* C1: on Windows the run of the toolchain selector leaves CC = gcc,
\* CXX = g++, AR = ar, RANLIB = ranlib, whatever they were bound to, and
\* changes no other binding of the environment.
C1_WindowsRebindsFourTools ==
    [][(ToolchainStep /\ platform = "Windows") =>
          /\ env'["CC"] = "gcc"
          /\ env'["CXX"] = "g++"
          /\ env'["AR"] = "ar"
          /\ env'["RANLIB"] = "ranlib"
          /\ DOMAIN env' = DOMAIN env
          /\ \A k \in DOMAIN env \ ToolKeys : env'[k] = env[k]]_vars

C1_Witness ==
    /\ platform = "Windows"
    /\ ToolchainRan
    /\ defaultEnv["CC"] = "cl" /\ defaultEnv["RANLIB"] = "true"
    /\ env["CC"] = "gcc" /\ env["RANLIB"] = "ranlib"
    /\ env["LINK"] = defaultEnv["LINK"]

\* C2: on any host other than Windows the run of the toolchain selector
\* leaves every binding of the environment as it was.
C2_OtherPlatformsNoOp ==
    [][(ToolchainStep /\ platform # "Windows") => env' = env]_vars

C2_Witness ==
    /\ platform = "Darwin"
    /\ ToolchainRan
    /\ env["CC"] = "cl" /\ env["AR"] = "lib"
    /\ env = defaultEnv

\* C3: once the executable of a coverage tool was not found, no further
\* tool is invoked, no success message is printed, nothing is raised to the
\* caller, and the function returns having printed the installation hint.
C3_NotFoundPrintsHint ==
    \A i \in DOMAIN calls :
        NotFound(i) =>
            /\ i = Len(calls)
            /\ ~Printed("success")
            /\ ~Printed("failed")
            /\ exc = NoExc
            /\ pc \in {"except", "returned"}
            /\ pc = "except" => pendingExc.type = "FileNotFoundError"
            /\ pc = "returned" => stdout = <<GeneratingMsg, HintMsg>>

C3_Witness ==
    /\ pc = "returned"
    /\ Len(calls) = 2
    /\ calls[2].step = "filter"
    /\ NotFound(2)
    /\ Printed("hint")

\* C4: once a tool has exited with a non-zero status, every later step is
\* skipped, no success message is printed, nothing is raised to the caller,
\* and the function returns having printed the failure warning with the
\* command and exit status of that tool.
C4_NonZeroPrintsFailure ==
    \A i \in DOMAIN calls :
        ExitedNonZero(i) =>
            /\ i = Len(calls)
            /\ ~Printed("success")
            /\ ~Printed("hint")
            /\ exc = NoExc
            /\ pc \in {"except", "returned"}
            /\ pc = "except" => pendingExc.type = "CalledProcessError"
            /\ pc = "returned" =>
                 /\ Len(stdout) = 2
                 /\ stdout[2].kind = "failed"
                 /\ stdout[2].detail.type = "CalledProcessError"
                 /\ stdout[2].detail.cmd = calls[i].argv
                 /\ stdout[2].detail.returncode = calls[i].rc

C4_Witness ==
    /\ pc = "returned"
    /\ Len(calls) = 3
    /\ calls[3].step = "genhtml"
    /\ ExitedNonZero(3)
    /\ calls[3].rc = 2
    /\ Printed("failed")

\* C5: the report path, ending in coverage/html/index.html, is printed if
\* and only if all three tools have exited with status zero, and then no
\* warning is printed.
C5_SuccessIffAllThreeOk ==
    /\ Printed("success") =>
         /\ AllThreeOk
         /\ ~Printed("hint")
         /\ ~Printed("failed")
         /\ \A i \in DOMAIN stdout :
              stdout[i].kind = "success" =>
                 EndsWith(stdout[i].path, <<"coverage", "html", "index.html">>)
    /\ (pc \in {"returned", "raised"} /\ AllThreeOk) => Printed("success")

C5_Witness ==
    /\ pc = "returned"
    /\ AllThreeOk
    /\ Printed("success")

C7_ExistingDirectoryReused ==
    (fsAtEntry.dir /\ pc # "idle") =>
        /\ makedirsCalls = 0
        /\ ~mkdirFailed
        /\ pc # "raised"
        /\ exc = NoExc
        /\ pc \in {"checkdir", "capture"} => fs = fsAtEntry
        /\ pc = "returned" => calls # <<>>

C7_Witness ==
    /\ fsAtEntry.dir
    /\ fsAtEntry.info = "complete"
    /\ pc = "capture_wait"
    /\ fs = fsAtEntry
    /\ makedirsCalls = 0

\* C8: the tools are invoked in the order lcov --capture, lcov --remove,
\* genhtml, each at most once; when a tool is invoked every earlier one has
\* exited with status zero, so at most one tool is running at any time.
C8_FixedOrderNoOverlap ==
    /\ Len(calls) <= 3
    /\ \A i \in DOMAIN calls :
         /\ calls[i].step = Steps[i]
         /\ calls[i].argv[1] = (IF i = 3 THEN W("genhtml") ELSE W("lcov"))
         /\ i = 1 => calls[i].argv[2] = W("--capture")
         /\ i = 2 => calls[i].argv[2] = W("--remove")
         /\ i < Len(calls) => ExitedZero(i)
    /\ Cardinality({i \in DOMAIN calls : calls[i].outcome = "running"}) <= 1

C8_Witness ==
    /\ Len(calls) = 3
    /\ calls[3].outcome = "running"
    /\ ExitedZero(1)
    /\ ExitedZero(2)

\* C9: after a tool invocation has failed (not found, or non-zero exit) the
\* coverage directory and the artifacts are exactly as they were when it
\* failed, and no tool is invoked after it.
C9_NoCleanupNoRetry ==
    \A i \in DOMAIN calls :
        (NotFound(i) \/ ExitedNonZero(i)) =>
            /\ fs = fsAtFail
            /\ Len(calls) = i
            /\ \A j \in DOMAIN calls : calls[j].step = calls[i].step => j = i

C9_Witness ==
    /\ pc = "returned"
    /\ Len(calls) = 2
    /\ ExitedNonZero(2)
    /\ fs.dir
    /\ fs.info = "complete"
    /\ fs.filtered = "partial"

\* C10: when os.makedirs fails, the error leaves generate_coverage_report
\* uncaught: no tool is invoked and neither the installation hint, the
\* failure warning nor the success message is printed.
C10_MakedirsErrorPropagates ==
    mkdirFailed =>
        /\ pc = "raised"
        /\ exc.type = "OSError"
        /\ calls = <<>>
        /\ pendingExc = NoExc
        /\ stdout = <<GeneratingMsg>>

C10_Witness ==
    /\ mkdirFailed
    /\ pc = "raised"
    /\ exc.type = "OSError"
    /\ ~fs.dir

=============================================================================
